---- MODULE Spec2Model ----
(***************************************************************************)
(* Temporal correlation and pattern-detection engine of the student        *)
(* logging application (src/utils/analyticsHelpers.js).                    *)
(*                                                                         *)
(* The engine is a set of pure functions over a list of logs.  Each        *)
(* specification below draws the argument of the call from a bounded set   *)
(* in its initial predicate, and its actions apply one entry point to it   *)
(* and record what the call returned (or that it raised an exception).     *)
(***************************************************************************)
EXTENDS Integers, Sequences, FiniteSets, TLC

VARIABLES
  logs,          \* the array handed to the entry point
  present,       \* FALSE when the argument is undefined instead of an array
  now,           \* the clock value read by Date.now() during detectPatterns
  instant,       \* outcome of getLogTimestamp(logs[1])
  correlations,  \* outcome of getSensoryMoodCorrelation(logs)
  guarded,       \* outcome of the guarded getSensoryMoodCorrelation(logs)
  alerts,        \* outcome of detectPatterns(logs)
  filtered,      \* outcome of filterLogsByDateRange(logs, startDate, endDate)
  students,          \* App: the students state
  selectedStudentId, \* App: the selectedStudentId state
  storage,           \* localStorage item 'kre-students'
  wallClock,         \* the value Date.now() returns to the application
  heap,              \* the schedule period objects, by reference
  activeTab,         \* MainContent: the activeTab state
  localSchedule,     \* ScheduleSettings: the localSchedule state
  isModalOpen,       \* MainContent: the isModalOpen state
  isLoading,         \* MainContent: the isLoading state
  aiResponse,        \* MainContent: the aiResponse state
  error,             \* MainContent: the error state
  requests,          \* the invocations of handleGetInsights, oldest first
  apiKey             \* import.meta.env.VITE_GEMINI_API_KEY

appVars ==
  <<students, selectedStudentId, storage, wallClock, heap, activeTab, localSchedule>>

engineVars == <<logs, present, now, instant, correlations, guarded, alerts, filtered>>

insightVars == <<isModalOpen, isLoading, aiResponse, error, requests, apiKey>>

vars == <<engineVars, appVars, insightVars>>

----------------------------------------------------------------------------
(* Bounds of the model                                                     *)

MaxLogs == 3         \* longest list handed to the correlation engine
MaxDetectLogs == 4   \* longest list handed to detectPatterns
MaxRuleLogs == 5     \* longest list of resolvable logs handed to detectPatterns
MaxEngineLogs == 3   \* longest list handed to the three entry points in turn
MaxTicks == 2        \* milliseconds that pass while the application runs
MaxStudents == 3     \* a student is added to a list shorter than this
MaxCreatedLogs == 2  \* most logs of a student that the logging view created
MaxPeriods == 1      \* most period objects created in the schedule settings
MaxInvocations == 2 \* handleGetInsights is invoked at most this many times

----------------------------------------------------------------------------
(* JavaScript values                                                       *)

\* A field of a log is a number, a string, or missing (undefined).
Num(n) == [t |-> "number", n |-> n, s |-> ""]
Str(s) == [t |-> "string", n |-> 0, s |-> s]
Undefined == [t |-> "undefined", n |-> 0, s |-> ""]

\* The time value of an Invalid Date.  Every instant the model feeds in is a
\* natural number, so -1 is free to stand for NaN; the Js* operators below
\* give it the IEEE semantics (every comparison with NaN is false, NaN
\* propagates through addition).
NaN == -1

JsGt(a, b) == a # NaN /\ b # NaN /\ a > b
JsGe(a, b) == a # NaN /\ b # NaN /\ a >= b
JsAdd(a, n) == IF a = NaN THEN NaN ELSE a + n

\* a <= b on instants, false when either is NaN
JsLe(a, b) == a # NaN /\ b # NaN /\ a <= b

\* 2 * 60 * 60 * 1000
TwoHours == 7200000
DayMillis == 86400000

\* new Date(string).getTime(): ISO date-time strings parse to their epoch
\* milliseconds; the display strings the app stores ('10:30 AM', 'Yesterday')
\* and arbitrary identifiers are not dates and give NaN.
DateParse(s) ==
  CASE s = "1970-01-01T00:00:00.000Z" -> 0
    [] s = "1970-01-01T00:00:00.001Z" -> 1
    [] s = "1970-01-01T02:00:00.000Z" -> TwoHours
    [] s = "1970-01-01T02:00:00.001Z" -> TwoHours + 1
    [] OTHER -> NaN

\* new Date(v).getTime() for a field value v
DateOf(v) ==
  CASE v.t = "number" -> v.n
    [] v.t = "string" -> DateParse(v.s)
    [] OTHER -> NaN

\* !v
Falsy(v) ==
  \/ v.t = "undefined"
  \/ v.t = "number" /\ v.n = 0
  \/ v.t = "string" /\ v.s = ""

----------------------------------------------------------------------------
(* Timestamp normalizer                                                    *)

getLogTimestamp(log) ==
  IF log.timestamp.t = "number" THEN log.timestamp.n
  ELSE IF log.timestamp.t = "string" THEN DateParse(log.timestamp.s)
  ELSE IF log.id.t = "number" THEN log.id.n ELSE DateOf(log.id)

----------------------------------------------------------------------------
(* Correlation engine                                                      *)

sensoryCategories == <<"Visual", "Auditory", "Tactile">>
moods == <<"Happy", "Sad", "Angry", "Anxious">>

RECURSIVE SumTo(_, _)
SumTo(f, n) == IF n = 0 THEN 0 ELSE f[n] + SumTo(f, n - 1)

\* The look-ahead loop `for (let i = index + 1; i < logs.length; i++)`,
\* entered at (1-based) position i; the value is what the loop adds to
\* correlationCount.
RECURSIVE ScanForward_FirstFeeling(_, _, _, _)
ScanForward_FirstFeeling(list, i, twoHoursLater, mood) ==
  IF i > Len(list) THEN 0
  ELSE IF JsGt(getLogTimestamp(list[i]), twoHoursLater) THEN 0
  ELSE IF list[i].type = "feeling"
  THEN (IF list[i].value = mood THEN 1 ELSE 0)
  ELSE ScanForward_FirstFeeling(list, i + 1, twoHoursLater, mood)

RECURSIVE ScanForward_Exclusive(_, _, _, _)
ScanForward_Exclusive(list, i, twoHoursLater, mood) ==
  IF i > Len(list) THEN 0
  ELSE IF JsGe(getLogTimestamp(list[i]), twoHoursLater) THEN 0
  ELSE IF list[i].type = "feeling" /\ list[i].value = mood THEN 1
  ELSE ScanForward_Exclusive(list, i + 1, twoHoursLater, mood)

RECURSIVE ScanForward_CountAll(_, _, _, _)
ScanForward_CountAll(list, i, twoHoursLater, mood) ==
  IF i > Len(list) THEN 0
  ELSE IF JsGt(getLogTimestamp(list[i]), twoHoursLater) THEN 0
  ELSE (IF list[i].type = "feeling" /\ list[i].value = mood THEN 1 ELSE 0)
       + ScanForward_CountAll(list, i + 1, twoHoursLater, mood)

\* The loop with `continue` in place of the `break` at the deadline.
RECURSIVE ScanForward_SkipPastWindow(_, _, _, _)
ScanForward_SkipPastWindow(list, i, twoHoursLater, mood) ==
  IF i > Len(list) THEN 0
  ELSE IF JsGt(getLogTimestamp(list[i]), twoHoursLater)
  THEN ScanForward_SkipPastWindow(list, i + 1, twoHoursLater, mood)
  ELSE IF list[i].type = "feeling" /\ list[i].value = mood THEN 1
  ELSE ScanForward_SkipPastWindow(list, i + 1, twoHoursLater, mood)

RECURSIVE ScanForward(_, _, _, _)
ScanForward(list, i, twoHoursLater, mood) ==
  IF i > Len(list) THEN 0
  ELSE IF JsGt(getLogTimestamp(list[i]), twoHoursLater) THEN 0
  ELSE IF list[i].type = "feeling" /\ list[i].value = mood THEN 1
  ELSE ScanForward(list, i + 1, twoHoursLater, mood)

\* logs.forEach((log, index) => ...) for one (category, mood) pair
CorrelationCount(list, category, mood) ==
  SumTo([index \in 1..Len(list) |->
           IF list[index].type = "sensory" /\ list[index].category = category
           THEN ScanForward(list, index + 1,
                            JsAdd(getLogTimestamp(list[index]), TwoHours), mood)
           ELSE 0],
        Len(list))

\* The array `correlations` after the two nested forEach loops: one entry
\* per pair, categories outer, moods inner.
AllCorrelations_Unshift(list) ==
  [k \in 1..(Len(sensoryCategories) * Len(moods)) |->
     LET r == Len(sensoryCategories) * Len(moods) + 1 - k
         category == sensoryCategories[((r - 1) \div Len(moods)) + 1]
         mood == moods[((r - 1) % Len(moods)) + 1]
     IN [sensory |-> category, mood |-> mood,
         count |-> CorrelationCount(list, category, mood)]]

AllCorrelations(list) ==
  [k \in 1..(Len(sensoryCategories) * Len(moods)) |->
     LET category == sensoryCategories[((k - 1) \div Len(moods)) + 1]
         mood == moods[((k - 1) % Len(moods)) + 1]
     IN [sensory |-> category, mood |-> mood,
         count |-> CorrelationCount(list, category, mood)]]

\* correlations.filter(c => c.count > 0)
FilterPositive_KeepAll(cs) == cs

FilterPositive(cs) ==
  LET RECURSIVE Keep(_)
      Keep(k) == IF k > Len(cs) THEN <<>>
                 ELSE IF cs[k].count > 0 THEN <<cs[k]>> \o Keep(k + 1)
                 ELSE Keep(k + 1)
  IN Keep(1)

\* What a call returns: its value, or the fact that it raised an exception.
Returned(v) == [called |-> TRUE, threw |-> FALSE, value |-> v]
Threw == [called |-> TRUE, threw |-> TRUE, value |-> <<>>]
NotCalled == [called |-> FALSE, threw |-> FALSE, value |-> <<>>]

\* getSensoryMoodCorrelation(logs); logs.forEach on undefined is a TypeError
getSensoryMoodCorrelation(isArray, list) ==
  IF ~ isArray THEN Threw
  ELSE Returned(FilterPositive(AllCorrelations(list)))

\* The second, guarded definition of getSensoryMoodCorrelation: it reads
\* log.id instead of getLogTimestamp(log) and skips what it cannot read.
RECURSIVE ScanForwardGuarded(_, _, _, _)
ScanForwardGuarded(list, i, twoHoursLater, mood) ==
  IF i > Len(list) THEN 0
  ELSE IF Falsy(list[i].id) \/ list[i].type = ""
  THEN ScanForwardGuarded(list, i + 1, twoHoursLater, mood)
  ELSE IF DateOf(list[i].id) = NaN
  THEN ScanForwardGuarded(list, i + 1, twoHoursLater, mood)
  ELSE IF JsGt(DateOf(list[i].id), twoHoursLater) THEN 0
  ELSE IF list[i].type = "feeling" /\ list[i].value = mood THEN 1
  ELSE ScanForwardGuarded(list, i + 1, twoHoursLater, mood)

CorrelationCountGuarded(list, category, mood) ==
  SumTo([index \in 1..Len(list) |->
           IF \/ Falsy(list[index].id)
              \/ list[index].type = ""
              \/ list[index].category = ""
           THEN 0
           ELSE IF list[index].type = "sensory" /\ list[index].category = category
           THEN (IF DateOf(list[index].id) = NaN THEN 0
                 ELSE ScanForwardGuarded(list, index + 1,
                        JsAdd(DateOf(list[index].id), TwoHours), mood))
           ELSE 0],
        Len(list))

getSensoryMoodCorrelationGuarded(isArray, list) ==
  IF ~ isArray THEN Returned(<<>>)
  ELSE Returned(FilterPositive(
         [k \in 1..(Len(sensoryCategories) * Len(moods)) |->
            LET category == sensoryCategories[((k - 1) \div Len(moods)) + 1]
                mood == moods[((k - 1) % Len(moods)) + 1]
            IN [sensory |-> category, mood |-> mood,
                count |-> CorrelationCountGuarded(list, category, mood)]]))

----------------------------------------------------------------------------
(* Pattern detector                                                        *)

DayNames ==
  <<"Sunday", "Monday", "Tuesday", "Wednesday", "Thursday", "Friday", "Saturday">>

\* format(new Date(t), 'EEEE') for a valid date (UTC; 1 January 1970 was a
\* Thursday).  For an Invalid Date date-fns raises RangeError instead.
DayName(t) == DayNames[(((t \div DayMillis) + 4) % 7) + 1]

Alert(type, message, clock) ==
  [type |-> type, message |-> message, timestamp |-> clock]

IsNegativeMood(log) ==
  log.type = "feeling" /\ (log.value = "Anxious" \/ log.value = "Angry")

\* logs.filter(...) of Rule 1
recentNegativeMoods(list, twoHoursAgo) ==
  SelectSeq(list, LAMBDA log :
    IsNegativeMood(log) /\ JsGe(getLogTimestamp(log), twoHoursAgo))

AcuteDistressAlerts(list, twoHoursAgo, clock) ==
  IF Len(recentNegativeMoods(list, twoHoursAgo)) >= 3
  THEN <<Alert("warning",
               ToString(Len(recentNegativeMoods(list, twoHoursAgo)))
                 \o " anxious/angry logs in the past 2 hours", clock)>>
  ELSE <<>>

\* logs.filter(...) of Rule 2
recentHighSensory(list, twoHoursAgo) ==
  SelectSeq(list, LAMBDA log :
    /\ log.type = "sensory" /\ log.intensity = "High"
    /\ JsGe(getLogTimestamp(log), twoHoursAgo))

SensoryOverloadAlerts(list, twoHoursAgo, clock) ==
  IF Len(recentHighSensory(list, twoHoursAgo)) >= 2
  THEN <<Alert("info", "Multiple high sensory intensity logs detected", clock)>>
  ELSE <<>>

\* The keys of an object in insertion order: the first occurrences in seq.
RECURSIVE Keys(_)
Keys(seq) ==
  IF seq = <<>> THEN <<>>
  ELSE LET rest == Keys(SubSeq(seq, 1, Len(seq) - 1))
           last == seq[Len(seq)]
       IN IF \E k \in 1..Len(rest) : rest[k] = last THEN rest
          ELSE Append(rest, last)

FeelingLogs(list) == SelectSeq(list, LAMBDA log : log.type = "feeling")

\* The reduce of Rule 3 formats the date of every feeling log, so it raises
\* as soon as one of them has no valid instant.
WeeklyReduceThrows(list) ==
  \E k \in 1..Len(list) :
    list[k].type = "feeling" /\ getLogTimestamp(list[k]) = NaN

\* moodsByDayOfWeek[day][mood] (0 for a missing key)
moodsByDayOfWeek(list, day, mood) ==
  Len(SelectSeq(FeelingLogs(list), LAMBDA log :
        DayName(getLogTimestamp(log)) = day /\ log.value = mood))

RECURSIVE Flatten(_)
Flatten(seqs) ==
  IF seqs = <<>> THEN <<>> ELSE Head(seqs) \o Flatten(Tail(seqs))

\* for (const day in moodsByDayOfWeek) for (const mood in ...[day])
WeeklyAlerts(list, clock) ==
  LET feelings == FeelingLogs(list)
      days == Keys([k \in 1..Len(feelings) |->
                     DayName(getLogTimestamp(feelings[k]))])
      moodsOf(day) ==
        LET ofDay == SelectSeq(feelings, LAMBDA log :
                       DayName(getLogTimestamp(log)) = day)
        IN Keys([k \in 1..Len(ofDay) |-> ofDay[k].value])
      alertsOf(day) ==
        Flatten([m \in 1..Len(moodsOf(day)) |->
          IF moodsByDayOfWeek(list, day, moodsOf(day)[m]) >= 3
          THEN <<Alert("info",
                       "Student typically feels " \o moodsOf(day)[m]
                         \o " on " \o day \o "s", clock)>>
          ELSE <<>>])
  IN Flatten([d \in 1..Len(days) |-> alertsOf(days[d])])

\* The look-ahead loop of Rule 4, entered at position i for the sensory log
\* `log`; the value is the alerts it pushes.
RECURSIVE ScanTrigger(_, _, _, _, _)
ScanTrigger(list, i, twoHoursLater, log, clock) ==
  IF i > Len(list) THEN <<>>
  ELSE IF JsGt(getLogTimestamp(list[i]), twoHoursLater) THEN <<>>
  ELSE IF IsNegativeMood(list[i])
  THEN <<Alert("warning",
               "High " \o log.category \o " input was followed by feeling "
                 \o list[i].value, clock)>>
  ELSE ScanTrigger(list, i + 1, twoHoursLater, log, clock)

\* Rule 4 without the test of the intensity.
TriggerAlerts_AnyIntensity(list, clock) ==
  Flatten([index \in 1..Len(list) |->
    IF list[index].type = "sensory"
    THEN ScanTrigger(list, index + 1,
                     JsAdd(getLogTimestamp(list[index]), TwoHours),
                     list[index], clock)
    ELSE <<>>])

TriggerAlerts(list, clock) ==
  Flatten([index \in 1..Len(list) |->
    IF list[index].type = "sensory" /\ list[index].intensity = "High"
    THEN ScanTrigger(list, index + 1,
                     JsAdd(getLogTimestamp(list[index]), TwoHours),
                     list[index], clock)
    ELSE <<>>])

\* detectPatterns with the causal triggers pushed before the weekly patterns.
detectPatterns_TriggersFirst(isArray, list, clock) ==
  IF ~ isArray THEN Threw
  ELSE IF WeeklyReduceThrows(list) THEN Threw
  ELSE Returned(AcuteDistressAlerts(list, clock - TwoHours, clock)
                  \o SensoryOverloadAlerts(list, clock - TwoHours, clock)
                  \o TriggerAlerts(list, clock)
                  \o WeeklyAlerts(list, clock))

\* detectPatterns(logs) with Date.now() = clock; logs.filter on undefined is
\* a TypeError.
detectPatterns(isArray, list, clock) ==
  IF ~ isArray THEN Threw
  ELSE IF WeeklyReduceThrows(list) THEN Threw
  ELSE Returned(AcuteDistressAlerts(list, clock - TwoHours, clock)
                  \o SensoryOverloadAlerts(list, clock - TwoHours, clock)
                  \o WeeklyAlerts(list, clock)
                  \o TriggerAlerts(list, clock))

----------------------------------------------------------------------------
(* Date-range filter, and the argument after a call                        *)

\* logs.filter(log => logDate >= startDate && logDate <= endDate)
filterLogsByDateRange(isArray, list, startDate, endDate) ==
  IF ~ isArray THEN Threw
  ELSE Returned(SelectSeq(list, LAMBDA log :
         /\ JsGe(getLogTimestamp(log), startDate)
         /\ JsLe(getLogTimestamp(log), endDate)))

RECURSIVE Reversed(_)
Reversed(list) ==
  IF list = <<>> THEN <<>> ELSE Append(Reversed(Tail(list)), Head(list))

\* The argument as an in-place logs.reverse() would leave it.
InputAfterCall_Reversed(list) == Reversed(list)

\* The array the caller passed, as the entry point leaves it: the engine
\* reads it with forEach, filter, reduce and index reads, which neither
\* reorder it nor write to its elements.
InputAfterCall(list) == list

----------------------------------------------------------------------------
(* The application state while only the engine is exercised                *)

\* selectedStudentId = null; the ids of students are positive numbers
NullId == 0

NoStorage == [has |-> FALSE, value |-> <<>>]
Unmounted == [mounted |-> FALSE, periods |-> <<>>]

\* null, as the value of the error state
Null == "<null>"

\* A build with a key; useState(false), useState(false), useState(''),
\* useState(null), and no invocation of handleGetInsights yet.
InsightsIdle ==
  /\ isModalOpen = FALSE
  /\ isLoading = FALSE
  /\ aiResponse = ""
  /\ error = Null
  /\ requests = <<>>
  /\ apiKey = "key"

AppIdle ==
  /\ InsightsIdle
  /\ students = <<>>
  /\ selectedStudentId = NullId
  /\ storage = NoStorage
  /\ wallClock = 0
  /\ heap = <<>>
  /\ activeTab = "logging"
  /\ localSchedule = Unmounted

----------------------------------------------------------------------------
(* Arguments of the calls                                                  *)

\* A feeling log and a sensory log as the logging view builds them; a field
\* the view does not set is "" (a missing property).
FeelingLog(value, timestamp, id) ==
  [id |-> id, type |-> "feeling", value |-> value, category |-> "",
   intensity |-> "", timestamp |-> timestamp]

SensoryLog(category, intensity, timestamp, id) ==
  [id |-> id, type |-> "sensory", value |-> "", category |-> category,
   intensity |-> intensity, timestamp |-> timestamp]

\* How a log carries its time: a numeric timestamp equal to its id, or no
\* timestamp and an id that is not a date, from which no instant can be
\* derived.
Stamped(n) == [timestamp |-> Num(n), id |-> Num(n)]
Unstamped == [timestamp |-> Undefined, id |-> Str("log-a")]

ListsUpTo(S, n) == UNION {[1..k -> S] : k \in 0..n}

CorrStamps == {Stamped(0), Stamped(TwoHours), Stamped(TwoHours + 1), Unstamped}

CorrLogs ==
  {FeelingLog(v, st.timestamp, st.id) : v \in {"Happy", "Anxious"}, st \in CorrStamps}
  \cup
  {SensoryLog(c, "High", st.timestamp, st.id) : c \in {"Visual", "Tactile"}, st \in CorrStamps}

----------------------------------------------------------------------------
(* Calls of the correlation engine                                         *)

Init ==
  /\ \/ present = TRUE /\ logs \in ListsUpTo(CorrLogs, MaxLogs)
     \/ present = FALSE /\ logs = <<>>
  /\ now = 0
  /\ instant = NotCalled
  /\ correlations = NotCalled
  /\ guarded = NotCalled
  /\ alerts = NotCalled
  /\ filtered = NotCalled
  /\ AppIdle

CallGetSensoryMoodCorrelation ==
  /\ ~ correlations.called
  /\ correlations' = getSensoryMoodCorrelation(present, logs)
  /\ logs' = InputAfterCall(logs)
  /\ UNCHANGED <<present, now, instant, guarded, alerts, filtered, appVars, insightVars>>

CallGetSensoryMoodCorrelationGuarded ==
  /\ ~ guarded.called
  /\ guarded' = getSensoryMoodCorrelationGuarded(present, logs)
  /\ logs' = InputAfterCall(logs)
  /\ UNCHANGED <<present, now, instant, correlations, alerts, filtered, appVars, insightVars>>

Next ==
  \/ CallGetSensoryMoodCorrelation
  \/ CallGetSensoryMoodCorrelationGuarded

Spec == Init /\ [][Next]_vars

----------------------------------------------------------------------------
(* Calls of the timestamp normalizer                                       *)

NormTimestamps ==
  {Undefined, Num(0), Num(1), Num(TwoHours),
   Str("1970-01-01T00:00:00.001Z"), Str("1970-01-01T02:00:00.001Z"),
   Str("10:30 AM"), Str("Yesterday")}

NormIds ==
  {Undefined, Num(0), Num(1), Num(TwoHours), Num(TwoHours + 1),
   Str("1970-01-01T00:00:00.000Z"), Str("1970-01-01T02:00:00.000Z"),
   Str("log-a")}

InitNorm ==
  /\ present = TRUE
  /\ logs \in {<<FeelingLog("Happy", ts, id)>> : ts \in NormTimestamps, id \in NormIds}
  /\ now = 0
  /\ instant = NotCalled
  /\ correlations = NotCalled
  /\ guarded = NotCalled
  /\ alerts = NotCalled
  /\ filtered = NotCalled
  /\ AppIdle

CallGetLogTimestamp ==
  /\ ~ instant.called
  /\ Len(logs) >= 1
  /\ instant' = Returned(getLogTimestamp(logs[1]))
  /\ UNCHANGED <<logs, present, now, correlations, guarded, alerts, filtered, appVars, insightVars>>

NextNorm == CallGetLogTimestamp

SpecNorm == InitNorm /\ [][NextNorm]_vars

----------------------------------------------------------------------------
(* Calls of the pattern detector                                           *)

DetectStamps == {Stamped(1), Stamped(2), Unstamped}

DetectLogs ==
  {FeelingLog(v, st.timestamp, st.id) :
     v \in {"Angry", "Anxious", "Happy"}, st \in DetectStamps}
  \cup
  {SensoryLog("Visual", "High", st.timestamp, st.id) : st \in DetectStamps}

\* Values of Date.now(): the cutoff now - 2h is 1 or 2.
Clocks == {TwoHours + 1, TwoHours + 2}

InitDetect ==
  /\ \/ present = TRUE /\ logs \in ListsUpTo(DetectLogs, MaxDetectLogs)
     \/ present = FALSE /\ logs = <<>>
  /\ now = 0
  /\ instant = NotCalled
  /\ correlations = NotCalled
  /\ guarded = NotCalled
  /\ alerts = NotCalled
  /\ filtered = NotCalled
  /\ AppIdle

CallDetectPatterns ==
  /\ ~ alerts.called
  /\ \E clock \in Clocks :
       /\ now' = clock
       /\ alerts' = detectPatterns(present, logs, clock)
  /\ logs' = InputAfterCall(logs)
  /\ UNCHANGED <<present, instant, correlations, guarded, filtered, appVars, insightVars>>

NextDetect == CallDetectPatterns

SpecDetect == InitDetect /\ [][NextDetect]_vars

----------------------------------------------------------------------------
(* Calls of the pattern detector on longer lists of resolvable logs        *)

\* Stamped(1) is more than two hours before Stamped(TwoHours + 2).
RuleLogs ==
  {FeelingLog(v, Stamped(TwoHours + 2).timestamp, Stamped(TwoHours + 2).id) :
     v \in {"Angry", "Anxious", "Happy"}}
  \cup
  {SensoryLog("Visual", "High", Stamped(1).timestamp, Stamped(1).id),
   SensoryLog("Tactile", "High", Stamped(TwoHours + 2).timestamp,
              Stamped(TwoHours + 2).id),
   SensoryLog("Tactile", "Low", Stamped(TwoHours + 2).timestamp,
              Stamped(TwoHours + 2).id)}

InitRules ==
  /\ present = TRUE
  /\ logs \in ListsUpTo(RuleLogs, MaxRuleLogs)
  /\ now = 0
  /\ instant = NotCalled
  /\ correlations = NotCalled
  /\ guarded = NotCalled
  /\ alerts = NotCalled
  /\ filtered = NotCalled
  /\ AppIdle

NextRules == CallDetectPatterns

SpecRules == InitRules /\ [][NextRules]_vars

----------------------------------------------------------------------------
(* Calls of the three entry points on one list, in any order               *)

EngineStamps == {Stamped(0), Stamped(TwoHours + 1), Unstamped}

EngineLogs ==
  {FeelingLog(v, st.timestamp, st.id) :
     v \in {"Anxious", "Happy"}, st \in EngineStamps}
  \cup
  {SensoryLog("Visual", "High", st.timestamp, st.id) : st \in EngineStamps}

\* The (startDate, endDate) pairs handed to filterLogsByDateRange
DateRanges == {<<0, TwoHours>>, <<1, TwoHours + 1>>}

InitEngine ==
  /\ \/ present = TRUE /\ logs \in ListsUpTo(EngineLogs, MaxEngineLogs)
     \/ present = FALSE /\ logs = <<>>
  /\ now = 0
  /\ instant = NotCalled
  /\ correlations = NotCalled
  /\ guarded = NotCalled
  /\ alerts = NotCalled
  /\ filtered = NotCalled
  /\ AppIdle

CallFilterLogsByDateRange ==
  /\ ~ filtered.called
  /\ \E range \in DateRanges :
       filtered' = filterLogsByDateRange(present, logs, range[1], range[2])
  /\ logs' = InputAfterCall(logs)
  /\ UNCHANGED <<present, now, instant, correlations, guarded, alerts, appVars, insightVars>>

NextEngine ==
  \/ CallGetSensoryMoodCorrelation
  \/ CallDetectPatterns
  \/ CallFilterLogsByDateRange

SpecEngine == InitEngine /\ [][NextEngine]_vars

----------------------------------------------------------------------------
(* The application: App, Sidebar, MainContent, StudentLoggingView          *)

\* Instants of the application are written as milliseconds after
\* 1720000000000 (2024-07-03T09:46:40Z), so that the ids of the demo logs
\* and the values of Date.now() are small enough to compute with.
ClockStart == 900000000

\* Milliseconds from midnight (UTC) to the origin above
OriginTimeOfDay == 35200000

Pad2(n) == IF n < 10 THEN "0" \o ToString(n) ELSE ToString(n)

\* new Date(t).toLocaleTimeString('en-US', {hour: 'numeric',
\*   minute: '2-digit', hour12: true}), for a browser in UTC
TimeString(t) ==
  LET minutes == ((t + OriginTimeOfDay) % DayMillis) \div 60000
      hour == minutes \div 60
      hour12 == IF hour % 12 = 0 THEN 12 ELSE hour % 12
  IN ToString(hour12) \o ":" \o Pad2(minutes % 60)
       \o (IF hour < 12 THEN " AM" ELSE " PM")

\* A student without the optional field `schedule`
NoSchedule == [set |-> FALSE, periods |-> <<>>]

DemoLog(id, type, value, sensory, description, timestamp) ==
  [id |-> Num(id), type |-> type, value |-> value, category |-> "",
   intensity |-> "", timestamp |-> Str(timestamp), sensory |-> sensory,
   description |-> description]

initialStudents ==
  << [id |-> 1, name |-> "Liam Carter", schedule |-> NoSchedule,
      logs |-> << DemoLog(862400000, "feeling", "Happy", "Auditory - Medium",
                          "", "10:30 AM"),
                  DemoLog(858500000, "sensory", "Visual - Low", "",
                          "Dimmed the lights", "09:15 AM"),
                  DemoLog(776000000, "feeling", "Anxious", "",
                          "Loud noise from outside", "Yesterday"),
                  DemoLog(775000000, "sensory", "Tactile - High", "",
                          "Used weighted blanket", "Yesterday"),
                  DemoLog(689600000, "feeling", "Sad", "",
                          "Missed a friend", "2 days ago") >>],
     [id |-> 2, name |-> "Olivia Bennett", schedule |-> NoSchedule, logs |-> <<>>],
     [id |-> 3, name |-> "Noah Thompson", schedule |-> NoSchedule, logs |-> <<>>],
     [id |-> 4, name |-> "Ava Rodriguez", schedule |-> NoSchedule, logs |-> <<>>],
     [id |-> 5, name |-> "Ethan Walker", schedule |-> NoSchedule, logs |-> <<>>] >>

\* JSON.stringify(students): the period objects are written out by value.
Stringify_DropPeriods(list, objects) ==
  [has |-> TRUE,
   value |-> [i \in 1..Len(list) |->
     [list[i] EXCEPT !.schedule = [set |-> @.set, periods |-> << >>]]]]

Stringify(list, objects) ==
  [has |-> TRUE,
   value |-> [i \in 1..Len(list) |->
     [list[i] EXCEPT !.schedule =
        [set |-> @.set,
         periods |-> [k \in 1..Len(@.periods) |-> objects[@.periods[k]]]]]]]

RECURSIVE PeriodsBefore(_, _)
PeriodsBefore(stored, i) ==
  IF i <= 1 THEN 0
  ELSE Len(stored[i - 1].schedule.periods) + PeriodsBefore(stored, i - 1)

\* JSON.parse(savedStudents): every period is a fresh object.
ParsedStudents(stored) ==
  [i \in 1..Len(stored) |->
     [stored[i] EXCEPT !.schedule =
        [set |-> @.set,
         periods |-> [k \in 1..Len(@.periods) |->
                        PeriodsBefore(stored, i) + k]]]]

ParsedHeap(stored) ==
  Flatten([i \in 1..Len(stored) |-> stored[i].schedule.periods])

\* students.find(s => s.id === selectedStudentId)
StudentFound(list, id) == \E i \in 1..Len(list) : list[i].id = id

Find(list, id) ==
  list[CHOOSE i \in 1..Len(list) :
         /\ list[i].id = id
         /\ \A k \in 1..(i - 1) : list[k].id # id]

\* useState(schedule || []) when ScheduleSettings mounts
Mounted(schedule) == [mounted |-> TRUE, periods |-> schedule.periods]

\* The localSchedule state after a render: ScheduleSettings is rendered on
\* the settings tab of a selected student and keeps its state while it
\* stays rendered.
Rendered(list, id, tab, settings) ==
  IF tab = "settings" /\ StudentFound(list, id)
  THEN (IF settings.mounted THEN settings ELSE Mounted(Find(list, id).schedule))
  ELSE Unmounted

\* The state after the first render and its effect, in a browser that holds
\* `saved` under 'kre-students'.
Loaded(saved) ==
  /\ students' = (IF saved.has THEN ParsedStudents(saved.value) ELSE initialStudents)
  /\ heap' = (IF saved.has THEN ParsedHeap(saved.value) ELSE <<>>)
  /\ storage' = Stringify(students', heap')
  /\ selectedStudentId' = 1
  /\ activeTab' = "logging"
  /\ localSchedule' = Unmounted

InitApp ==
  /\ logs = <<>> /\ present = TRUE /\ now = 0
  /\ InsightsIdle
  /\ instant = NotCalled /\ correlations = NotCalled /\ guarded = NotCalled
  /\ alerts = NotCalled /\ filtered = NotCalled
  /\ students = initialStudents
  /\ selectedStudentId = 1
  /\ storage = Stringify(initialStudents, <<>>)
  /\ wallClock = ClockStart
  /\ heap = <<>>
  /\ activeTab = "logging"
  /\ localSchedule = Unmounted

\* Time passes.
Tick ==
  /\ wallClock < ClockStart + MaxTicks
  /\ wallClock' = wallClock + 1
  /\ UNCHANGED <<engineVars, insightVars, students, selectedStudentId, storage, heap,
                 activeTab, localSchedule>>

\* The page is loaded again.
Reload ==
  /\ Loaded(storage)
  /\ isModalOpen' = FALSE /\ isLoading' = FALSE
  /\ aiResponse' = "" /\ error' = Null
  /\ requests' = <<>>
  /\ UNCHANGED <<engineVars, apiKey, wallClock>>

\* onSelectStudent={setSelectedStudentId}, from the list of the sidebar
SelectStudent ==
  \E i \in 1..Len(students) :
    /\ selectedStudentId' = students[i].id
    /\ localSchedule' = Rendered(students, students[i].id, activeTab, localSchedule)
    /\ UNCHANGED <<engineVars, insightVars, students, storage, wallClock, heap, activeTab>>

NewStudentNames == {"Mia Chen"}

handleAddStudent(name) ==
  /\ students' = Append(students, [id |-> wallClock, name |-> name,
                                   schedule |-> NoSchedule, logs |-> <<>>])
  /\ storage' = Stringify(students', heap)
  /\ localSchedule' = Rendered(students', selectedStudentId, activeTab, localSchedule)
  /\ UNCHANGED <<engineVars, insightVars, selectedStudentId, wallClock, heap, activeTab>>

HandleAddStudent ==
  /\ Len(students) < MaxStudents
  /\ \E name \in NewStudentNames : handleAddStudent(name)

\* updatedStudents[0]?.id || null
FirstIdOrNull(list) ==
  IF list = <<>> THEN NullId
  ELSE IF list[1].id = 0 THEN NullId ELSE list[1].id

handleDeleteStudent(studentId) ==
  LET updatedStudents == SelectSeq(students, LAMBDA student : student.id # studentId)
  IN /\ students' = updatedStudents
     /\ selectedStudentId' = (IF selectedStudentId = studentId
                              THEN FirstIdOrNull(updatedStudents)
                              ELSE selectedStudentId)
     /\ storage' = Stringify(students', heap)
     /\ localSchedule' = Rendered(students', selectedStudentId', activeTab, localSchedule)
     /\ UNCHANGED <<engineVars, insightVars, wallClock, heap, activeTab>>

HandleDeleteStudent ==
  \E i \in 1..Len(students) : handleDeleteStudent(students[i].id)

handleEditStudent(studentId, newName) ==
  /\ students' = [i \in 1..Len(students) |->
                    IF students[i].id = studentId
                    THEN [students[i] EXCEPT !.name = newName]
                    ELSE students[i]]
  /\ storage' = Stringify(students', heap)
  /\ UNCHANGED <<engineVars, insightVars, selectedStudentId, wallClock, heap, activeTab,
                 localSchedule>>

\* What is typed into the name field of the sidebar's edit form
EditedNames == {"Liam C."}

\* Sidebar handleSaveEdit: the name is not empty and differs from the name
\* of the student being edited.
HandleEditStudent ==
  \E i \in 1..Len(students), newName \in EditedNames :
    /\ newName # Find(students, students[i].id).name
    /\ handleEditStudent(students[i].id, newName)

NextApp ==
  \/ Tick
  \/ Reload
  \/ SelectStudent
  \/ HandleAddStudent
  \/ HandleDeleteStudent

SpecApp == InitApp /\ [][NextApp]_vars

----------------------------------------------------------------------------
(* The application: creating, deleting and editing logs                    *)

\* The logs created by the logging view, as against the demo logs
CreatedLogs(list) == SelectSeq(list, LAMBDA log : log.id.n >= ClockStart)

\* The logging view is rendered on the logging tab of a selected student.
LoggingViewRendered ==
  activeTab = "logging" /\ StudentFound(students, selectedStudentId)

\* The map with every student replaced, selected or not.
MapSelected_Everyone(list, id, replaced) == replaced

\* prevStudents.map(student =>
\*   student.id === selectedStudentId ? {...student, ...} : student)
\* replaced[i] is what student i becomes, were it the selected one.
MapSelected(list, id, replaced) ==
  [i \in 1..Len(list) |-> IF list[i].id = id THEN replaced[i] ELSE list[i]]

\* setStudents(prevStudents => prevStudents.map(student =>
\*   student.id === selectedStudentId ? {...student, logs: ...} : student))
\* changed[i] is the new array of logs for student i, were it selected.
SetSelectedLogs(changed) ==
  /\ students' = MapSelected(students, selectedStudentId,
                    [i \in 1..Len(students) |->
                       [students[i] EXCEPT !.logs = changed[i]]])
  /\ storage' = Stringify(students', heap)
  /\ UNCHANGED <<engineVars, insightVars, selectedStudentId, wallClock, heap, activeTab,
                 localSchedule>>

handleAddLog_Append(newLog) ==
  SetSelectedLogs([i \in 1..Len(students) |-> Append(students[i].logs, newLog)])

handleAddLog(newLog) ==
  SetSelectedLogs([i \in 1..Len(students) |-> <<newLog>> \o students[i].logs])

FeelingButtons == {"Happy", "Anxious"}

\* id: Date.now() and nothing added to it
handleFeelingClick(feeling) ==
  handleAddLog(FeelingLog(feeling, Str(TimeString(wallClock)), Num(wallClock)))

HandleFeelingClick ==
  /\ LoggingViewRendered
  /\ Len(CreatedLogs(Find(students, selectedStudentId).logs)) < MaxCreatedLogs
  /\ \E feeling \in FeelingButtons : handleFeelingClick(feeling)

\* The values of sensoryInputs[category] that handleLogSensory goes on
\* with: an intensity has been chosen (the notes are left empty).
SensoryInputs == {[category |-> "Visual", intensity |-> "High", notes |-> ""]}

SensoryLogWithNotes(category, intensity, notes, timestamp, id) ==
  [id |-> id, type |-> "sensory", value |-> "", category |-> category,
   intensity |-> intensity, timestamp |-> timestamp, notes |-> notes]

handleLogSensory(input) ==
  handleAddLog(SensoryLogWithNotes(input.category, input.intensity, input.notes,
                                   Str(TimeString(wallClock)), Num(wallClock)))

HandleLogSensory ==
  /\ LoggingViewRendered
  /\ Len(CreatedLogs(Find(students, selectedStudentId).logs)) < MaxCreatedLogs
  /\ \E input \in SensoryInputs : handleLogSensory(input)

handleDeleteLog(logId) ==
  SetSelectedLogs([i \in 1..Len(students) |->
    SelectSeq(students[i].logs, LAMBDA log : log.id # logId)])

\* The timeline offers the logs of the selected student.
HandleDeleteLog ==
  /\ LoggingViewRendered
  /\ \E k \in 1..Len(Find(students, selectedStudentId).logs) :
       handleDeleteLog(Find(students, selectedStudentId).logs[k].id)

\* The spread that writes no timestamp into the result.
Spread_DropTimestamp(log, updatedLog) ==
  [f \in DOMAIN log \cup DOMAIN updatedLog |->
     IF f = "timestamp" THEN Undefined
     ELSE IF f \in DOMAIN updatedLog THEN updatedLog[f] ELSE log[f]]

\* { ...log, ...updatedLog }
Spread(log, updatedLog) ==
  [f \in DOMAIN log \cup DOMAIN updatedLog |->
     IF f \in DOMAIN updatedLog THEN updatedLog[f] ELSE log[f]]

handleEditLog(logId, updatedLog) ==
  SetSelectedLogs([i \in 1..Len(students) |->
    [k \in 1..Len(students[i].logs) |->
       IF students[i].logs[k].id = logId
       THEN Spread(students[i].logs[k], updatedLog)
       ELSE students[i].logs[k]]])

\* log[field] || ''
FieldOrEmpty(log, field) == IF field \in DOMAIN log THEN log[field] ELSE ""

\* handleEditClick(log): the form data the timeline starts the edit with
EditFormData(log) ==
  [value |-> log.value,
   notes |-> IF FieldOrEmpty(log, "notes") # "" THEN log.notes
             ELSE FieldOrEmpty(log, "description"),
   category |-> FieldOrEmpty(log, "category"),
   intensity |-> FieldOrEmpty(log, "intensity")]

\* What is typed into the value field of the edit form
TypedValues == {"Calm"}

\* Edit on a log of the timeline, a new value typed, Save:
\* handleSaveEdit(log.id) sends onEditLog(logId, editFormData).
HandleEditLog ==
  /\ LoggingViewRendered
  /\ \E k \in 1..Len(Find(students, selectedStudentId).logs), typed \in TypedValues :
       LET log == Find(students, selectedStudentId).logs[k]
       IN handleEditLog(log.id, [EditFormData(log) EXCEPT !.value = typed])

NextLogs ==
  \/ Tick
  \/ HandleFeelingClick
  \/ HandleLogSensory
  \/ HandleDeleteLog
  \/ HandleEditLog

SpecLogs == InitApp /\ [][NextLogs]_vars

\* What an earlier session left under 'kre-students': the demo data after
\* four logs of the first student and the last three students were deleted.
EarlierSession ==
  Stringify(<< [initialStudents[1] EXCEPT !.logs = SubSeq(@, 2, 2)],
               initialStudents[2] >>, <<>>)

\* The state after the first render and its effect in that browser
InitReturning ==
  /\ logs = <<>> /\ present = TRUE /\ now = 0
  /\ InsightsIdle
  /\ instant = NotCalled /\ correlations = NotCalled /\ guarded = NotCalled
  /\ alerts = NotCalled /\ filtered = NotCalled
  /\ students = ParsedStudents(EarlierSession.value)
  /\ heap = ParsedHeap(EarlierSession.value)
  /\ storage = Stringify(students, heap)
  /\ selectedStudentId = 1
  /\ wallClock = ClockStart
  /\ activeTab = "logging"
  /\ localSchedule = Unmounted

SpecTimeline == InitReturning /\ [][NextLogs]_vars

\* <Analytics logs={student.logs} ... />, and in it
\* detectPatterns(logs): the array of the selected student, as it is.
PatternsInput == Find(students, selectedStudentId).logs

----------------------------------------------------------------------------
(* The application: the schedule settings                                  *)

Tabs == {"logging", "analytics", "settings"}

\* onClick={() => setActiveTab(tab)}
SetActiveTab ==
  \E tab \in Tabs :
    /\ activeTab' = tab
    /\ localSchedule' = Rendered(students, selectedStudentId, tab, localSchedule)
    /\ UNCHANGED <<engineVars, insightVars, students, selectedStudentId, storage, wallClock, heap>>

NewPeriod == [start |-> "09:00", end |-> "10:00", subject |-> ""]

\* setLocalSchedule([...localSchedule, {start: '09:00', ...}])
HandleAddPeriod ==
  /\ localSchedule.mounted
  /\ Len(heap) < MaxPeriods
  /\ heap' = Append(heap, NewPeriod)
  /\ localSchedule' = [localSchedule EXCEPT !.periods = Append(@, Len(heap) + 1)]
  /\ UNCHANGED <<engineVars, insightVars, students, selectedStudentId, storage, wallClock, activeTab>>

\* newSchedule.splice(index, 1) on a copy of the array
Splice(list, index) ==
  SubSeq(list, 1, index - 1) \o SubSeq(list, index + 1, Len(list))

HandleRemovePeriod ==
  /\ localSchedule.mounted
  /\ \E index \in 1..Len(localSchedule.periods) :
       localSchedule' = [localSchedule EXCEPT !.periods = Splice(@, index)]
  /\ UNCHANGED <<engineVars, insightVars, students, selectedStudentId, storage, wallClock,
                 heap, activeTab>>

\* What is typed into the fields of a period
FieldValues == [start |-> {"08:00"}, end |-> {"11:00"}, subject |-> {"Math"}]

\* newSchedule[index][field] = value: the array is a copy, the period object
\* in it is not.
handleChange(objects, ref, field, value) ==
  [objects EXCEPT ![ref] = [@ EXCEPT ![field] = value]]

HandleChange ==
  /\ localSchedule.mounted
  /\ \E index \in 1..Len(localSchedule.periods), field \in DOMAIN FieldValues :
       \E value \in FieldValues[field] :
         heap' = handleChange(heap, localSchedule.periods[index], field, value)
  /\ UNCHANGED <<engineVars, insightVars, students, selectedStudentId, storage, wallClock,
                 activeTab, localSchedule>>

\* onClick={() => onSave(localSchedule)}
handleSaveSchedule(schedule) ==
  /\ students' = MapSelected(students, selectedStudentId,
                    [i \in 1..Len(students) |->
                       [students[i] EXCEPT !.schedule =
                          [set |-> TRUE, periods |-> schedule]]])
  /\ storage' = Stringify(students', heap)
  /\ UNCHANGED <<engineVars, insightVars, selectedStudentId, wallClock, heap, activeTab,
                 localSchedule>>

HandleSaveSchedule ==
  /\ localSchedule.mounted
  /\ handleSaveSchedule(localSchedule.periods)

NextSchedule ==
  \/ SetActiveTab
  \/ HandleAddPeriod
  \/ HandleRemovePeriod
  \/ HandleChange
  \/ HandleSaveSchedule

SpecSchedule == InitApp /\ [][NextSchedule]_vars

----------------------------------------------------------------------------
(* The application: every handler that sets the students state             *)

NextSession ==
  \/ Reload
  \/ HandleFeelingClick
  \/ HandleDeleteLog
  \/ HandleEditLog
  \/ HandleAddStudent
  \/ HandleDeleteStudent
  \/ HandleEditStudent
  \/ SetActiveTab
  \/ HandleAddPeriod
  \/ HandleSaveSchedule

SpecSession == InitReturning /\ [][NextSession]_vars

----------------------------------------------------------------------------
(* The application: the handlers of the selected student                   *)

\* The four handlers that map over the students by selectedStudentId, with
\* what changes the selection under them: a student deleted, the page
\* reloaded.
NextSelected ==
  \/ Reload
  \/ HandleFeelingClick
  \/ HandleDeleteLog
  \/ HandleEditLog
  \/ HandleDeleteStudent
  \/ SetActiveTab
  \/ HandleAddPeriod
  \/ HandleSaveSchedule

SpecSelected == InitReturning /\ [][NextSelected]_vars

----------------------------------------------------------------------------
(* The application: the AI insights request of MainContent                 *)

\* Values of VITE_GEMINI_API_KEY: undefined, the placeholder of .env.example,
\* and a key.
ApiKeys == {"", "your_gemini_api_key_here", "key"}

KeyMessage ==
  "Please add your Gemini API key to .env file. Copy .env.example to .env and add your key. Get your API key from https://makersuite.google.com/app/apikey"

NoLogsMessage ==
  "No logs available for this student. Please add some logs first."

\* What the request comes back with: fetch rejects, or resolves with a
\* response of a status and a body.  The body is invalid JSON, or an object
\* with candidates (whose first content has parts with a text, or no parts),
\* with an error (with or without a message), or with neither.
Rejected(message) ==
  [resolved |-> FALSE, status |-> 0, body |-> "", text |-> "", message |-> message]

Response(status, body, text, message) ==
  [resolved |-> TRUE, status |-> status, body |-> body, text |-> text,
   message |-> message]

Replies ==
  {Rejected("Failed to fetch"), Rejected(""),
   Response(400, "error", "", "API key not valid"),
   Response(429, "error", "", "Quota exceeded"),
   Response(500, "invalid", "", ""),
   Response(200, "candidates", "Offer a quiet corner after loud activities.", ""),
   Response(200, "candidates", "Plan movement breaks before lunch.", ""),
   Response(200, "candidates without parts", "", ""),
   Response(200, "error", "", "Model overloaded"),
   Response(200, "error", "", ""),
   Response(200, "other", "", ""),
   Response(200, "invalid", "", "")}

Succeeded(text) == [ok |-> TRUE, text |-> text, message |-> ""]

\* catch (err): setError(err.message || 'Failed to get AI insights. ...')
Caught(message) ==
  [ok |-> FALSE, text |-> "",
   message |-> IF message = "" THEN "Failed to get AI insights. Please try again."
               ELSE message]

\* The part of handleGetInsights after the fetch, with every error cleared
\* instead of surfaced.
AfterFetch_SilentFailure(reply) ==
  IF reply.resolved /\ reply.status = 200 /\ reply.body = "candidates"
  THEN Succeeded(reply.text)
  ELSE [ok |-> FALSE, text |-> "", message |-> Null]

\* The part of handleGetInsights after the fetch: the text it sets, or the
\* message of the error it catches.
AfterFetch(reply) ==
  IF ~ reply.resolved THEN Caught(reply.message)
  ELSE IF reply.status # 200
  THEN IF reply.status = 400
       THEN Caught("Invalid API key or request. Please check your Gemini API key.")
       ELSE IF reply.status = 429
       THEN Caught("API rate limit exceeded. Please try again later.")
       ELSE Caught("API request failed: " \o ToString(reply.status))
  ELSE IF reply.body = "invalid"
  THEN Caught("Unexpected end of JSON input")
  ELSE IF reply.body = "candidates" THEN Succeeded(reply.text)
  ELSE IF reply.body = "candidates without parts"
  THEN Caught("Cannot read properties of undefined (reading '0')")
  ELSE IF reply.body = "error"
  THEN Caught(IF reply.message = "" THEN "API error occurred" ELSE reply.message)
  ELSE Caught("Unexpected response format from API")

\* An invocation of handleGetInsights: the number of requests it has sent
\* and whether it has run to its end.
Invocation(sent, settled) == [sent |-> sent, settled |-> settled]

\* The button is on the logging tab, under the overlay of the open modal.
InsightsButtonRendered ==
  /\ activeTab = "logging"
  /\ StudentFound(students, selectedStudentId)
  /\ ~ isModalOpen

\* handleGetInsights up to its first await: the four sets, then the throw
\* for a missing key or an empty list of logs, caught in the same turn, or
\* the fetch.
handleGetInsights(student) ==
  /\ isModalOpen' = TRUE
  /\ IF apiKey = "" \/ apiKey = "your_gemini_api_key_here"
     THEN /\ error' = Caught(KeyMessage).message
          /\ isLoading' = FALSE
          /\ requests' = Append(requests, Invocation(0, TRUE))
     ELSE IF Len(student.logs) = 0
     THEN /\ error' = Caught(NoLogsMessage).message
          /\ isLoading' = FALSE
          /\ requests' = Append(requests, Invocation(0, TRUE))
     ELSE /\ error' = Null
          /\ isLoading' = TRUE
          /\ requests' = Append(requests, Invocation(1, FALSE))
  /\ aiResponse' = ""
  /\ UNCHANGED <<engineVars, appVars, apiKey>>

HandleGetInsights ==
  /\ InsightsButtonRendered
  /\ Len(requests) < MaxInvocations
  /\ handleGetInsights(Find(students, selectedStudentId))

\* The fetch of invocation r settles and the invocation runs to its end:
\* setAiResponse(text) or setError(message), then setIsLoading(false).
FetchSettles(r, reply) ==
  /\ ~ requests[r].settled
  /\ requests' = [requests EXCEPT ![r].settled = TRUE]
  /\ IF AfterFetch(reply).ok
     THEN aiResponse' = AfterFetch(reply).text /\ error' = error
     ELSE error' = AfterFetch(reply).message /\ aiResponse' = aiResponse
  /\ isLoading' = FALSE
  /\ UNCHANGED <<engineVars, appVars, isModalOpen, apiKey>>

RequestCompletes ==
  \E r \in 1..Len(requests), reply \in Replies : FetchSettles(r, reply)

\* onClose of the InsightsModal
CloseInsightsModal ==
  /\ isModalOpen
  /\ isModalOpen' = FALSE
  /\ error' = Null
  /\ aiResponse' = ""
  /\ UNCHANGED <<engineVars, appVars, isLoading, requests, apiKey>>

InitInsights ==
  /\ logs = <<>> /\ present = TRUE /\ now = 0
  /\ instant = NotCalled /\ correlations = NotCalled /\ guarded = NotCalled
  /\ alerts = NotCalled /\ filtered = NotCalled
  /\ students = ParsedStudents(EarlierSession.value)
  /\ heap = ParsedHeap(EarlierSession.value)
  /\ storage = Stringify(students, heap)
  /\ selectedStudentId = 1
  /\ wallClock = ClockStart
  /\ activeTab = "logging"
  /\ localSchedule = Unmounted
  /\ isModalOpen = FALSE /\ isLoading = FALSE
  /\ aiResponse = "" /\ error = Null
  /\ requests = <<>>
  /\ apiKey \in ApiKeys

NextInsights ==
  \/ SelectStudent
  \/ HandleGetInsights
  \/ RequestCompletes
  \/ CloseInsightsModal

SpecInsights == InitInsights /\ [][NextInsights]_vars

----------------------------------------------------------------------------
(* Properties of the correlation engine                                    *)

InstantAt(list, i) == getLogTimestamp(list[i])

\* The list is non-decreasing in resolved instant.
NonDecreasing(list) ==
  \A i, j \in 1..Len(list) : i < j => JsLe(InstantAt(list, i), InstantAt(list, j))

AllResolved(list) == \A i \in 1..Len(list) : InstantAt(list, i) # NaN

SensoryAt(list, i, category) ==
  list[i].type = "sensory" /\ list[i].category = category

FeelingAt(list, j, mood) ==
  list[j].type = "feeling" /\ list[j].value = mood

\* Sensory events of the category that some later feeling event with the
\* mood follows no later than two hours after them.
FollowedWithinWindow(list, category, mood) ==
  {i \in 1..Len(list) :
     /\ SensoryAt(list, i, category)
     /\ \E j \in (i + 1)..Len(list) :
          /\ FeelingAt(list, j, mood)
          /\ JsLe(InstantAt(list, j), JsAdd(InstantAt(list, i), TwoHours))}

\* The count a returned array reports for a pair (0 when the pair is absent).
CountIn(result, category, mood) ==
  SumTo([k \in 1..Len(result) |->
           IF result[k].sensory = category /\ result[k].mood = mood
           THEN result[k].count ELSE 0],
        Len(result))

Elems(seq) == {seq[k] : k \in 1..Len(seq)}

CorrReturned == correlations.called /\ ~ correlations.threw

\* C1: on a list that is non-decreasing in resolved instant, the count of
\* every tracked (category, mood) pair is the number of sensory events of the
\* category that a later feeling event with the mood follows within two
\* hours: leaving the scan at the first event past the window loses nothing.
C1_OrderedCountIsExact ==
  (CorrReturned /\ NonDecreasing(logs)) =>
    \A category \in Elems(sensoryCategories), mood \in Elems(moods) :
      CountIn(correlations.value, category, mood)
        = Cardinality(FollowedWithinWindow(logs, category, mood))

\* An ordered list in which a scan left at an event past the window and
\* another scan counted a match.
C1_Witness ==
  /\ CorrReturned /\ NonDecreasing(logs)
  /\ Len(correlations.value) >= 1
  /\ \E i, j \in 1..Len(logs) :
       /\ i < j /\ logs[i].type = "sensory"
       /\ JsGt(InstantAt(logs, j), JsAdd(InstantAt(logs, i), TwoHours))

\* C2: the upper bound of the window is inclusive.  Where the list is
\* ordered and holds one sensory event of a category, a later feeling event
\* exactly 7,200,000 ms after it gives the pair the count 1; where every
\* later feeling event with the mood is 7,200,001 ms after it or later, the
\* pair is not returned.
C2_InclusiveUpperBound ==
  (CorrReturned /\ AllResolved(logs)) =>
    \A i \in 1..Len(logs) : \A category \in Elems(sensoryCategories) :
      ( /\ SensoryAt(logs, i, category)
        /\ \A k \in 1..Len(logs) : SensoryAt(logs, k, category) => k = i )
      =>
      \A mood \in Elems(moods) :
        /\ ( /\ NonDecreasing(logs)
             /\ \E j \in (i + 1)..Len(logs) :
                  /\ FeelingAt(logs, j, mood)
                  /\ InstantAt(logs, j) = InstantAt(logs, i) + TwoHours )
           => CountIn(correlations.value, category, mood) = 1
        /\ ( \A j \in (i + 1)..Len(logs) :
                FeelingAt(logs, j, mood)
                  => InstantAt(logs, j) >= InstantAt(logs, i) + TwoHours + 1 )
           => \A k \in 1..Len(correlations.value) :
                ~ ( /\ correlations.value[k].sensory = category
                    /\ correlations.value[k].mood = mood )

\* A stimulus at 0 followed by one mood at 7,200,000 (counted) and another
\* mood at 7,200,001 (not counted).
C2_Witness ==
  /\ CorrReturned
  /\ Len(logs) = 3
  /\ SensoryAt(logs, 1, "Visual") /\ InstantAt(logs, 1) = 0
  /\ FeelingAt(logs, 2, "Happy") /\ InstantAt(logs, 2) = TwoHours
  /\ FeelingAt(logs, 3, "Anxious") /\ InstantAt(logs, 3) = TwoHours + 1
  /\ correlations.value = <<[sensory |-> "Visual", mood |-> "Happy", count |-> 1]>>

\* C3: a sensory event adds at most 1 to the count of a pair, so the count
\* of a pair never exceeds the number of sensory events of its category.
C3_FirstMatchOnly ==
  CorrReturned =>
    \A k \in 1..Len(correlations.value) :
      correlations.value[k].count
        <= Cardinality({i \in 1..Len(logs) :
                          SensoryAt(logs, i, correlations.value[k].sensory)})

\* One sensory event followed by two feeling events with the same mood, both
\* inside its window, and the pair counted once.
C3_Witness ==
  /\ CorrReturned
  /\ Len(logs) = 3
  /\ SensoryAt(logs, 1, "Visual")
  /\ FeelingAt(logs, 2, "Anxious") /\ FeelingAt(logs, 3, "Anxious")
  /\ JsLe(InstantAt(logs, 3), JsAdd(InstantAt(logs, 1), TwoHours))
  /\ JsLe(InstantAt(logs, 2), JsAdd(InstantAt(logs, 1), TwoHours))
  /\ CountIn(correlations.value, "Visual", "Anxious") = 1

\* C4: no returned pair has the count 0.
C4_NoZeroCount ==
  CorrReturned =>
    \A k \in 1..Len(correlations.value) : correlations.value[k].count >= 1

\* A call that returned some pairs and dropped the others.
C4_Witness ==
  /\ CorrReturned
  /\ Len(correlations.value) >= 1
  /\ Len(correlations.value) < Len(sensoryCategories) * Len(moods)

IndexOf(seq, x) == CHOOSE k \in 1..Len(seq) : seq[k] = x

\* Position of a pair in the iteration categories outer, moods inner.
Rank(pair) ==
  (IndexOf(sensoryCategories, pair.sensory) - 1) * Len(moods)
    + IndexOf(moods, pair.mood)

\* C5: the returned pairs are in the order categories outer (Visual,
\* Auditory, Tactile), moods inner (Happy, Sad, Angry, Anxious), whatever the
\* order of the events, and no pair is returned twice.
C5_FixedIterationOrder ==
  CorrReturned =>
    /\ \A k \in 1..Len(correlations.value) :
         /\ correlations.value[k].sensory \in Elems(sensoryCategories)
         /\ correlations.value[k].mood \in Elems(moods)
    /\ \A k, l \in 1..Len(correlations.value) :
         k < l => Rank(correlations.value[k]) < Rank(correlations.value[l])

\* The Tactile event precedes the Visual event in the list, and the Visual
\* pair precedes the Tactile pair in the result.
C5_Witness ==
  /\ CorrReturned
  /\ Len(logs) = 3
  /\ SensoryAt(logs, 1, "Tactile") /\ SensoryAt(logs, 2, "Visual")
  /\ Len(correlations.value) = 2
  /\ correlations.value[1].sensory = "Visual"
  /\ correlations.value[2].sensory = "Tactile"

WithoutUnresolved(list) == SelectSeq(list, LAMBDA log : getLogTimestamp(log) # NaN)

\* C6: an event whose instant cannot be resolved neither starts nor
\* satisfies a window, and the events after it are still scanned: the result
\* is the one the list gives once those events are left out.
C6_UnresolvedNeverMatches ==
  CorrReturned =>
    correlations.value
      = FilterPositive(AllCorrelations(WithoutUnresolved(logs)))

----------------------------------------------------------------------------
(* Properties of the pattern detector, the empty input and the normalizer  *)

\* C7: detectPatterns never fails on a list that holds events with
\* unresolvable instants: it returns the alerts of the remaining events.
C7_DetectNeverFails ==
  (alerts.called /\ present) =>
    /\ ~ alerts.threw
    /\ alerts.value = detectPatterns(TRUE, WithoutUnresolved(logs), now).value

\* C8: for an empty list and for an absent one, every entry point returns
\* an empty array and raises nothing.
C8_EmptyOrAbsentGivesEmpty ==
  (~ present \/ logs = <<>>) =>
    \A outcome \in {correlations, guarded, alerts} :
      outcome.called => (~ outcome.threw /\ outcome.value = <<>>)

\* The instant by the three rules applied in order with fall-through.
ResolveInstant(log) ==
  IF log.timestamp.t = "number" THEN log.timestamp.n
  ELSE IF log.timestamp.t = "string" /\ DateParse(log.timestamp.s) # NaN
  THEN DateParse(log.timestamp.s)
  ELSE IF log.id.t = "number" THEN log.id.n
  ELSE DateOf(log.id)

\* C9: a numeric timestamp is used directly; a string timestamp is parsed,
\* and when the parse is invalid the instant is taken from the id (a numeric
\* id as epoch milliseconds, otherwise the id parsed as a date string).
C9_NormalizerFallsThrough ==
  instant.called => instant.value = ResolveInstant(logs[1])

Rule1Message(n) == ToString(n) \o " anxious/angry logs in the past 2 hours"

\* Angry/Anxious feeling events with instant >= now - 2h
RecentlyNegative(list, clock) ==
  {i \in 1..Len(list) :
     /\ IsNegativeMood(list[i])
     /\ JsGe(InstantAt(list, i), clock - TwoHours)}

\* C10: detectPatterns emits exactly one warning '<count> anxious/angry logs
\* in the past 2 hours' when 3 or more Angry/Anxious feeling events have an
\* instant >= now - 2h, and no such alert when 2 or fewer have.
C10_AcuteDistressThreshold ==
  (alerts.called /\ present) =>
    LET n == Cardinality(RecentlyNegative(logs, now))
        rule1 == {k \in 1..Len(alerts.value) :
                    \E m \in 0..Len(logs) : alerts.value[k].message = Rule1Message(m)}
    IN IF n >= 3
       THEN /\ Cardinality(rule1) = 1
            /\ \A k \in rule1 : /\ alerts.value[k].type = "warning"
                                 /\ alerts.value[k].message = Rule1Message(n)
       ELSE rule1 = {}

Rule2Message == "Multiple high sensory intensity logs detected"

\* High sensory events with instant >= now - 2h
RecentlyHighSensory(list, clock) ==
  {i \in 1..Len(list) :
     /\ list[i].type = "sensory"
     /\ list[i].intensity = "High"
     /\ JsGe(InstantAt(list, i), clock - TwoHours)}

\* C11: detectPatterns emits exactly one info alert 'Multiple high sensory
\* intensity logs detected' if and only if at least 2 sensory events of
\* intensity High have an instant inside the trailing 2-hour window.
C11_SensoryOverloadThreshold ==
  (alerts.called /\ present) =>
    LET n == Cardinality(RecentlyHighSensory(logs, now))
        rule2 == {k \in 1..Len(alerts.value) :
                    alerts.value[k].message = Rule2Message}
    IN IF n >= 2
       THEN /\ Cardinality(rule2) = 1
            /\ \A k \in rule2 : alerts.value[k].type = "info"
       ELSE rule2 = {}

Rule3Message(mood, day) ==
  "Student typically feels " \o mood \o " on " \o day \o "s"

\* Feeling events of the mood whose instant falls on the weekday
WeekdayMoodGroup(list, day, mood) ==
  {i \in 1..Len(list) :
     /\ FeelingAt(list, i, mood)
     /\ InstantAt(list, i) # NaN
     /\ DayName(InstantAt(list, i)) = day}

\* C12: detectPatterns emits exactly one info alert 'Student typically feels
\* <mood> on <Weekday>s' for each (weekday, mood) group of at least 3 feeling
\* events anywhere in the sequence, and none for a group of fewer than 3.
C12_WeeklyRecurrenceWindowFree ==
  (alerts.called /\ present) =>
    \A d \in 1..Len(DayNames), m \in 1..Len(moods) :
      LET rule3 == {k \in 1..Len(alerts.value) :
                      alerts.value[k].message = Rule3Message(moods[m], DayNames[d])}
      IN IF Cardinality(WeekdayMoodGroup(logs, DayNames[d], moods[m])) >= 3
         THEN /\ Cardinality(rule3) = 1
              /\ \A k \in rule3 : alerts.value[k].type = "info"
         ELSE rule3 = {}

Rule4Message(category, mood) ==
  "High " \o category \o " input was followed by feeling " \o mood

\* Angry/Anxious feeling events after position i that are no later than two
\* hours after the event at i
NegativeFollowUps(list, i) ==
  {j \in (i + 1)..Len(list) :
     /\ IsNegativeMood(list[j])
     /\ JsLe(InstantAt(list, j), JsAdd(InstantAt(list, i), TwoHours))}

Least(S) == CHOOSE j \in S : \A k \in S : j <= k

\* High sensory events of the category whose first negative follow-up has
\* the mood
Triggers(list, category, mood) ==
  {i \in 1..Len(list) :
     /\ SensoryAt(list, i, category)
     /\ list[i].intensity = "High"
     /\ NegativeFollowUps(list, i) # {}
     /\ list[Least(NegativeFollowUps(list, i))].value = mood}

AlertsWith(message) ==
  {k \in 1..Len(alerts.value) : alerts.value[k].message = message}

\* C13: on an ordered sequence detectPatterns emits exactly one warning per
\* High sensory event that has an Angry or Anxious feeling event at a later
\* position with instant <= its instant + 2h, naming the category of the
\* sensory event and the mood of the first such feeling event; other sensory
\* events produce no Rule-4 alert.
C13_CausalTriggerPerEvent ==
  (alerts.called /\ present /\ NonDecreasing(logs)) =>
    \A category \in Elems(sensoryCategories), mood \in {"Angry", "Anxious"} :
      /\ Cardinality(AlertsWith(Rule4Message(category, mood)))
           = Cardinality(Triggers(logs, category, mood))
      /\ \A k \in AlertsWith(Rule4Message(category, mood)) :
           alerts.value[k].type = "warning"

\* An ordered list with a High sensory event whose first negative follow-up
\* is not the next event, one whose follow-ups are all past the window, and
\* a Low sensory event with a negative follow-up.
C13_Witness ==
  /\ alerts.called /\ ~ alerts.threw /\ NonDecreasing(logs)
  /\ \E i \in 1..Len(logs) :
       /\ logs[i].type = "sensory" /\ logs[i].intensity = "High"
       /\ NegativeFollowUps(logs, i) # {}
       /\ Least(NegativeFollowUps(logs, i)) > i + 1
  /\ \E i \in 1..Len(logs) :
       /\ logs[i].type = "sensory" /\ logs[i].intensity = "High"
       /\ NegativeFollowUps(logs, i) = {}
       /\ \E j \in (i + 1)..Len(logs) : IsNegativeMood(logs[j])
  /\ \E i \in 1..Len(logs) :
       /\ logs[i].type = "sensory" /\ logs[i].intensity = "Low"
       /\ NegativeFollowUps(logs, i) # {}

\* The rule an alert comes from, read off its message (0 for none).
RuleOf(alert) ==
  IF \E n \in 0..Len(logs) : alert.message = Rule1Message(n) THEN 1
  ELSE IF alert.message = Rule2Message THEN 2
  ELSE IF \E d \in 1..Len(DayNames), m \in 1..Len(moods) :
            alert.message = Rule3Message(moods[m], DayNames[d]) THEN 3
  ELSE IF \E category \in Elems(sensoryCategories), mood \in Elems(moods) :
            alert.message = Rule4Message(category, mood) THEN 4
  ELSE 0

\* The number of alerts the four rules call for, each on its own.
AlertsCalledFor(list, clock) ==
  (IF Cardinality(RecentlyNegative(list, clock)) >= 3 THEN 1 ELSE 0)
  + (IF Cardinality(RecentlyHighSensory(list, clock)) >= 2 THEN 1 ELSE 0)
  + Cardinality({<<d, m>> \in (1..Len(DayNames)) \X (1..Len(moods)) :
       Cardinality(WeekdayMoodGroup(list, DayNames[d], moods[m])) >= 3})
  + Cardinality({i \in 1..Len(list) :
       /\ list[i].type = "sensory" /\ list[i].intensity = "High"
       /\ NegativeFollowUps(list, i) # {}})

\* C14: the returned alerts are in rule order (Rule 1, then Rule 2, then all
\* of Rule 3, then all of Rule 4) and every alert a rule emits is kept, also
\* when its message equals that of another alert.
C14_RuleOrderNoDedup ==
  (alerts.called /\ ~ alerts.threw) =>
    /\ \A k \in 1..Len(alerts.value) : RuleOf(alerts.value[k]) \in 1..4
    /\ \A j, k \in 1..Len(alerts.value) :
         j < k => RuleOf(alerts.value[j]) <= RuleOf(alerts.value[k])
    /\ NonDecreasing(logs) =>
         Len(alerts.value) = AlertsCalledFor(logs, now)

\* All four rules emit, and two of the alerts are equal.
C14_Witness ==
  /\ alerts.called /\ ~ alerts.threw /\ NonDecreasing(logs)
  /\ \A r \in 1..4 : \E k \in 1..Len(alerts.value) : RuleOf(alerts.value[k]) = r
  /\ \E j, k \in 1..Len(alerts.value) : j < k /\ alerts.value[j] = alerts.value[k]

\* The events in the order of their resolved instants (stable: events with
\* equal instants keep their relative order).
RECURSIVE SortedByInstant(_)
SortedByInstant(list) ==
  IF list = <<>> THEN <<>>
  ELSE LET last == list[Len(list)]
           rest == SortedByInstant(SubSeq(list, 1, Len(list) - 1))
           keep == Cardinality({k \in 1..Len(rest) :
                      getLogTimestamp(rest[k]) <= getLogTimestamp(last)})
       IN SubSeq(rest, 1, keep) \o <<last>> \o SubSeq(rest, keep + 1, Len(rest))

Rule4Alerts(result) == {k \in 1..Len(result) : RuleOf(result[k]) = 4}

ReachedFrom(list, i, j) ==
  \A k \in (i + 1)..j :
    ~ JsGt(InstantAt(list, k), JsAdd(InstantAt(list, i), TwoHours))

----------------------------------------------------------------------------
(* Properties of the application                                           *)

StudentIds == {students[i].id : i \in 1..Len(students)}

\* C18: in every reachable state of the application selectedStudentId is
\* null or the id of a student in the list, from the demo data or a list
\* loaded from localStorage, under select, add student and delete student.
C18_SelectionValid ==
  selectedStudentId = NullId \/ selectedStudentId \in StudentIds

\* The ids of the logs of every student are pairwise different.
LogIdsUnique ==
  \A i \in 1..Len(students) :
    \A j, k \in 1..Len(students[i].logs) :
      j # k => students[i].logs[j].id # students[i].logs[k].id

\* C19: the ids given to new logs never collide, also for logs created in
\* the same millisecond, so a delete or an edit of a log by its id changes
\* exactly one log.
C19_LogIdsNeverCollide ==
  LogIdsUnique

\* The schedules of the students as the application holds them, period by
\* period
PersistedSchedules ==
  [i \in 1..Len(students) |->
     [set |-> students[i].schedule.set,
      periods |-> [k \in 1..Len(students[i].schedule.periods) |->
                     heap[students[i].schedule.periods[k]]]]]

\* C20: adding, removing or changing a period in the schedule settings
\* without Save leaves the schedule of every student as it was.
C20_DraftEditsIsolated ==
  [][(HandleAddPeriod \/ HandleRemovePeriod \/ HandleChange)
       => PersistedSchedules' = PersistedSchedules]_vars

\* The logs of student i that a step changed
ChangedLogs(i) ==
  {k \in 1..Len(students[i].logs) : students'[i].logs[k] # students[i].logs[k]}

\* C21: an edit from the timeline's form keeps the id, the timestamp and the
\* position of the edited log and the length of the list, and leaves every
\* log with a different id unchanged.
C21_EditPreservesIdentity ==
  [][HandleEditLog =>
       /\ Len(students') = Len(students)
       /\ \A i \in 1..Len(students) :
            /\ Len(students'[i].logs) = Len(students[i].logs)
            /\ \A k \in 1..Len(students[i].logs) :
                 /\ students'[i].logs[k].id = students[i].logs[k].id
                 /\ students'[i].logs[k].timestamp = students[i].logs[k].timestamp
            /\ \A j, k \in ChangedLogs(i) :
                 students[i].logs[j].id = students[i].logs[k].id]_vars

\* A log has been edited in place, between two others, and so has the demo
\* log, whose description went into the notes of the form.
C21_Witness ==
  /\ Len(students) >= 1 /\ Len(students[1].logs) = 3
  /\ students[1].logs[2].id = Num(ClockStart)
  /\ students[1].logs[2].timestamp = Str(TimeString(ClockStart))
  /\ students[1].logs[2].value = "Calm"
  /\ students[1].logs[1].id = Num(ClockStart + 1)
  /\ students[1].logs[1].value # "Calm"
  /\ students[1].logs[3].id = Num(858500000)
  /\ students[1].logs[3].timestamp = Str("09:15 AM")
  /\ students[1].logs[3].value = "Calm"
  /\ students[1].logs[3].notes = "Dimmed the lights"

\* The students list with every schedule written out period by period
StudentsByValue ==
  [i \in 1..Len(students) |->
     [id |-> students[i].id, name |-> students[i].name,
      logs |-> students[i].logs,
      schedule |-> [set |-> students[i].schedule.set,
                    periods |-> [k \in 1..Len(students[i].schedule.periods) |->
                                   heap[students[i].schedule.periods[k]]]]]]

InSync == storage.has /\ storage.value = StudentsByValue

CreatedAt(log) == log.id.n

NewestFirst(list) ==
  \A k \in 1..(Len(list) - 1) : CreatedAt(list[k]) >= CreatedAt(list[k + 1])

AddsLog == HandleFeelingClick \/ HandleLogSensory

\* C23: the logs are added at non-decreasing instants (the clock never goes
\* back), and after each handleAddLog the selected student's list is one
\* longer, is newest-first, and starts with the log just added, followed by
\* the list as it was.
C23_PrependKeepsNewestFirst ==
  [][AddsLog =>
       \A i \in 1..Len(students) :
         students[i].id = selectedStudentId =>
           /\ Len(students'[i].logs) = Len(students[i].logs) + 1
           /\ CreatedAt(students'[i].logs[1]) = wallClock
           /\ Tail(students'[i].logs) = students[i].logs
           /\ NewestFirst(students'[i].logs)]_vars

\* Two logs were added at different instants on top of the stored one.
C23_Witness ==
  /\ Len(students) >= 1 /\ selectedStudentId = 1
  /\ Len(students[1].logs) = 3
  /\ students[1].logs[1].id = Num(ClockStart + 1)
  /\ students[1].logs[1].type = "sensory"
  /\ students[1].logs[2].id = Num(ClockStart)
  /\ students[1].logs[2].type = "feeling"
  /\ students[1].logs[2].value = "Anxious"
  /\ students[1].logs[3].id = Num(858500000)

Resolved(list) == {i \in 1..Len(list) : InstantAt(list, i) # NaN}

HighSensoryAt(list) ==
  {i \in 1..Len(list) : list[i].type = "sensory" /\ list[i].intensity = "High"}

NegativeMoodAt(list) == {j \in 1..Len(list) : IsNegativeMood(list[j])}

\* C24: an event whose instant cannot be resolved takes no part in the
\* rules of detectPatterns: when no High sensory event has a resolvable
\* instant, or no Angry/Anxious feeling event has one, there is no Rule-4
\* alert; Rule 1 reports the number of Angry/Anxious events with a resolved
\* instant in the window, and Rule 2 fires only on two or more High sensory
\* events with a resolved instant in the window.
C24_UnresolvedNeverMatches ==
  (alerts.called /\ present) =>
    /\ HighSensoryAt(logs) \cap Resolved(logs) = {} =>
         Rule4Alerts(alerts.value) = {}
    /\ NegativeMoodAt(logs) \cap Resolved(logs) = {} =>
         Rule4Alerts(alerts.value) = {}
    /\ \A k \in 1..Len(alerts.value) :
         /\ RuleOf(alerts.value[k]) = 1 =>
              alerts.value[k].message =
                Rule1Message(Cardinality(RecentlyNegative(logs, now)
                                           \cap Resolved(logs)))
         /\ RuleOf(alerts.value[k]) = 2 =>
              Cardinality(RecentlyHighSensory(logs, now) \cap Resolved(logs)) >= 2

\* Positions whose instant lies in the trailing window [clock - 2h, clock]
InTrailingWindow(list, clock) ==
  {i \in 1..Len(list) :
     /\ InstantAt(list, i) # NaN
     /\ InstantAt(list, i) >= clock - TwoHours
     /\ InstantAt(list, i) <= clock}

\* C25: Rule 1 and Rule 2 count the events of the trailing two hours that
\* end at now, both ends included: Rule 1 fires, with that count, exactly
\* when 3 or more Angry/Anxious events lie in it, and Rule 2 exactly when 2
\* or more High sensory events do; an event 1 ms older than now - 2h and an
\* event later than now are not counted.
C25_TrailingWindowOnly ==
  (alerts.called /\ present /\ ~ alerts.threw) =>
    LET n1 == Cardinality(NegativeMoodAt(logs) \cap InTrailingWindow(logs, now))
        n2 == Cardinality(HighSensoryAt(logs) \cap InTrailingWindow(logs, now))
        rule1 == {k \in 1..Len(alerts.value) : RuleOf(alerts.value[k]) = 1}
    IN /\ (rule1 # {}) <=> (n1 >= 3)
       /\ \A k \in rule1 : alerts.value[k].message = Rule1Message(n1)
       /\ (AlertsWith(Rule2Message) # {}) <=> (n2 >= 2)

----------------------------------------------------------------------------
(* Properties of the AI insights request                                   *)

\* Invocations that run to their end in the step
Finishing ==
  {r \in 1..Len(requests') :
     /\ requests'[r].settled
     /\ r <= Len(requests) => ~ requests[r].settled}

NoRequestPossible ==
  \/ apiKey = "" \/ apiKey = "your_gemini_api_key_here"
  \/ Len(Find(students, selectedStudentId).logs) = 0

Latest == Len(requests)

\* C30: while the latest invocation of handleGetInsights is in flight, the
\* completion of an earlier one changes neither isLoading nor the response
\* nor the error.
C30_LateCompletionIgnored ==
  [][\A r \in Finishing :
       (r < Latest /\ ~ requests[Latest].settled) =>
         UNCHANGED <<isLoading, aiResponse, error>>]_vars

----------------------------------------------------------------------------
(* Properties of the lists the application hands to the engine             *)

OldestFirst(list) ==
  \A k \in 1..(Len(list) - 1) : CreatedAt(list[k]) <= CreatedAt(list[k + 1])

\* C27: the logs that handleAddLog has added stand oldest first in the list
\* the application hands to detectPatterns for the selected student.
C27_HandedChronological ==
  StudentFound(students, selectedStudentId) =>
    OldestFirst(CreatedLogs(PatternsInput))

----------------------------------------------------------------------------
(* Agreement of the pattern detector with the correlation engine           *)

\* C28: when both entry points have returned for the same list, every alert
\* 'High C input was followed by feeling M' of detectPatterns has its pair
\* (C, M) in the result of getSensoryMoodCorrelation, with a count of at
\* least 1.
C28_TriggerImpliesCorrelation ==
  (CorrReturned /\ alerts.called /\ ~ alerts.threw) =>
    \A k \in 1..Len(alerts.value) :
      \A c \in 1..Len(sensoryCategories), m \in 1..Len(moods) :
        alerts.value[k].message = Rule4Message(sensoryCategories[c], moods[m]) =>
          \E n \in 1..Len(correlations.value) :
            /\ correlations.value[n].sensory = sensoryCategories[c]
            /\ correlations.value[n].mood = moods[m]
            /\ correlations.value[n].count >= 1

\* A trigger alert was emitted past a Happy feeling inside the window, and
\* the correlation holds its pair.
C28_Witness ==
  /\ CorrReturned /\ alerts.called /\ ~ alerts.threw
  /\ Len(logs) = 3
  /\ logs[2].type = "feeling" /\ logs[2].value = "Happy"
  /\ \E k \in 1..Len(alerts.value) :
       alerts.value[k].message = Rule4Message("Visual", "Anxious")
  /\ \E n \in 1..Len(correlations.value) :
       /\ correlations.value[n].sensory = "Visual"
       /\ correlations.value[n].mood = "Anxious"
       /\ correlations.value[n].count = 1

----------------------------------------------------------------------------
(* Properties of the handlers of the selected student                      *)

ChangesSelected ==
  HandleFeelingClick \/ HandleDeleteLog \/ HandleEditLog \/ HandleSaveSchedule

\* What the four handlers would make of each student: a log added, the
\* logs deleted, the logs edited, a schedule saved.
Replacements ==
  {[i \in 1..Len(students) |->
      [students[i] EXCEPT !.logs = <<FeelingLog("Happy", Str(TimeString(wallClock)),
                                               Num(wallClock))>> \o @]],
   [i \in 1..Len(students) |-> [students[i] EXCEPT !.logs = << >>]],
   [i \in 1..Len(students) |->
      [students[i] EXCEPT !.logs =
         [k \in 1..Len(@) |-> Spread(@[k], [value |-> "Calm"])]]],
   [i \in 1..Len(students) |->
      [students[i] EXCEPT !.schedule = [set |-> TRUE, periods |-> << >>]]]}

\* C29: adding, deleting or editing a log and saving a schedule leave the
\* number and the order of the students as they are and change no student
\* whose id differs from selectedStudentId (name, logs and schedule); and
\* in a state where selectedStudentId matches no student, the map of each
\* of the four handlers gives back the list unchanged.
C29_OnlySelectedChanges ==
  [][/\ ChangesSelected =>
          /\ Len(students') = Len(students)
          /\ \A i \in 1..Len(students) :
               /\ students'[i].id = students[i].id
               /\ students[i].id # selectedStudentId =>
                    /\ students'[i] = students[i]
                    /\ StudentsByValue'[i] = StudentsByValue[i]
     /\ ~ StudentFound(students', selectedStudentId') =>
          \A replaced \in Replacements' :
            MapSelected(students', selectedStudentId', replaced) = students']_vars

\* The first student has a new log and a saved schedule, the second
\* student is as stored.
C29_Witness ==
  /\ Len(students) = 2 /\ selectedStudentId = 1
  /\ students[1].id = 1 /\ students[2].id = 2
  /\ Len(students[1].logs) = 2
  /\ students[1].logs[1].id = Num(ClockStart)
  /\ students[1].schedule.set
  /\ students[2] = ParsedStudents(EarlierSession.value)[2]

\* The selection matches none of the students of a list that is not empty.
C29_UnmatchedWitness ==
  /\ Len(students) >= 1
  /\ ~ StudentFound(students, selectedStudentId)

====
